---- MODULE Spec2Model ----
(***************************************************************************)
(* A model of the SHAP dependence-plot code of dash_demo_shap_plot:        *)
(*   pipelines/shap_plot/plot_utils.py  the median aggregation, the        *)
(*                                      segment colouring, the two         *)
(*                                      dependence-plot renderers          *)
(*   pipelines/shap_plot/demo.py        the Dash front end                 *)
(*   pipelines/data_science/nodes.py    train_model and predict            *)
(*   pipelines/shap/nodes.py            calculate_shap                     *)
(*                                                                         *)
(* Values.  A pandas Series is [dtype, values]; a DataFrame is             *)
(* [columns, n, col] with col a function from column name to Series.       *)
(* Python's None is the string "None".  A call returns a record whose      *)
(* field exc is "None" when it returned and the exception's class when it  *)
(* raised (arg is then the exception's argument).                          *)
(* Attribution values are integers in units of 0.05 and are even, so the   *)
(* mean of two of them is again an integer: 0.2 is 4, 0.4 is 8, -0.1 is -2.*)
(***************************************************************************)
EXTENDS Integers, Sequences, FiniteSets, TLC

VARIABLES
    data_df,        \* the feature table handed to the library (train_x in demo.py)
    shap_value_df,  \* the attribution matrix (shap_values in demo.py)
    call,           \* the library call made last: function name and arguments
    ret,            \* what that call returned or raised, with the locals it built
    fig,            \* pyplot's global current figure: its layers in drawing order
    colored,        \* the two direct calls of _color_by_segment_col made last
    controls,       \* demo.py: the value of every input control of the page
    pc,             \* demo.py: per callback, where its request thread stands
    req,            \* demo.py: per callback, the arguments of the request in flight
    slots,          \* demo.py: the src property of the three html.Img outputs
    last,           \* demo.py: per callback, the outcome of the request served last
    nchanges        \* demo.py: how many control changes the user has made

vars == <<data_df, shap_value_df, call, ret, fig, colored, controls, pc, req, slots, last, nchanges>>

libvars == <<data_df, shap_value_df, call, ret, fig, colored>>
appvars == <<controls, pc, req, slots, last, nchanges>>

----------------------------------------------------------------------------
(* Bounds of the model *)

\* rows of the tables the aggregation is applied to
MaxRows == 3
\* length of the label sequences the colouring is applied to
MaxLen == 4
\* rows of the tables the renderers are applied to
MaxRenderRows == 2
\* control changes a user makes in one front-end run
MaxChanges == 3

None == "None"

\* feature values, categorical labels (in lexicographic order), attributions
XVals == {1, 2}
Alphabet == <<"A", "B", "C">>
YVals == {"A", "B"}
ZVals == {1, 2}
ShapVals == {-2, 4, 8}

----------------------------------------------------------------------------
(* Python and pandas values *)

Range(s) == {s[i] : i \in 1..Len(s)}

Series(dtype, values) == [dtype |-> dtype, values |-> values]

\* `c in df.columns`
HasCol(df, c) == \E i \in 1..Len(df.columns) : df.columns[i] = c

Returned == [exc |-> None, arg |-> None]
Raised(kind, arg) == [exc |-> kind, arg |-> arg]

\* sorted(s) for a sequence of integers
RECURSIVE sorted(_)
sorted(s) ==
    IF s = <<>> THEN <<>>
    ELSE LET i == CHOOSE k \in 1..Len(s) : \A j \in 1..Len(s) : s[k] <= s[j]
             rest == [j \in 1..(Len(s) - 1) |-> IF j < i THEN s[j] ELSE s[j + 1]]
         IN  <<s[i]>> \o sorted(rest)

\* the position of a value in the sort order of its dtype
StrRank(v) == CHOOSE i \in 1..Len(Alphabet) : Alphabet[i] = v
SortRank(dtype, v) == IF dtype = "int64" THEN v ELSE StrRank(v)

\* the position of a value in a sequence that holds it
IndexOf(seq, v) == CHOOSE i \in 1..Len(seq) : seq[i] = v

----------------------------------------------------------------------------
(* plot_utils.py: _calculate_median_shap_df *)

\* a median that takes the lower of the two middle values
MedianLow(vs) == sorted(vs)[(Len(vs) + 1) \div 2]

\* DataFrame.median() of one group: the middle value, or the mean of the two
\* middle values

median(vs) ==
    LET t == sorted(vs)
        n == Len(vs)
    IN  IF n % 2 = 1 THEN t[(n + 1) \div 2]
        ELSE (t[n \div 2] + t[n \div 2 + 1]) \div 2

\* lexicographic order of group keys, each a tuple of values
KeyLeq(k1, k2, dtypes) ==
    LET r1 == [i \in 1..Len(k1) |-> SortRank(dtypes[i], k1[i])]
        r2 == [i \in 1..Len(k2) |-> SortRank(dtypes[i], k2[i])]
    IN  \/ r1 = r2
        \/ \E i \in 1..Len(r1) :
              /\ r1[i] < r2[i]
              /\ \A j \in 1..(i - 1) : r1[j] = r2[j]

RECURSIVE SortedKeys(_, _)
SortedKeys(K, dtypes) ==
    IF K = {} THEN <<>>
    ELSE LET m == CHOOSE k \in K : \A j \in K : KeyLeq(k, j, dtypes)
         IN  <<m>> \o SortedKeys(K \ {m}, dtypes)

\* the values of a sequence at the positions where pred holds, in order
RECURSIVE Pick(_, _, _)
Pick(vs, keep, i) ==
    IF i > Len(vs) THEN <<>>
    ELSE (IF keep[i] THEN <<vs[i]>> ELSE <<>>) \o Pick(vs, keep, i + 1)

\* the distinct values in sorted order, as numpy.unique gives them
np_unique(values) ==
    LET ks == SortedKeys({<<v>> : v \in Range(values)}, <<"object">>)
    IN  [i \in 1..Len(ks) |-> ks[i][1]]

\* Series.unique(): the distinct values in order of first appearance
unique(values) ==
    LET F[i \in 0..Len(values)] ==
            IF i = 0 THEN <<>>
            ELSE IF values[i] \in Range(F[i - 1]) THEN F[i - 1]
                 ELSE Append(F[i - 1], values[i])
    IN  F[Len(values)]

\* the key of every row of contri_df, and the dtypes of the key columns
KeyAt(keycols, n) == [i \in 1..n |-> [j \in 1..Len(keycols) |-> keycols[j].values[i]]]
KeyDtypes(keycols) == [j \in 1..Len(keycols) |-> keycols[j].dtype]

\* the aggregate table for the given keys: the key columns and "Median"
Aggregate(by, keycols, shap, keys) ==
    LET keyAt  == KeyAt(keycols, Len(shap))
        grp(k) == Pick(shap, [i \in 1..Len(shap) |-> keyAt[i] = k], 1)
    IN  [columns |-> by \o <<"Median">>,
         n       |-> Len(keys),
         col     |-> [c \in Range(by) \cup {"Median"} |->
                        IF c = "Median"
                        THEN Series("float64", [r \in 1..Len(keys) |-> median(grp(keys[r]))])
                        ELSE Series(keycols[IndexOf(by, c)].dtype,
                                    [r \in 1..Len(keys) |-> keys[r][IndexOf(by, c)]])]]

\* an aggregation that keeps one row per row of contri_df
GroupbyPerRow(by, keycols, shap) ==
    Aggregate(by, keycols, shap, KeyAt(keycols, Len(shap)))

\* contri_df.groupby(by).median().reset_index() with the value column renamed
\* "Median": one row per distinct key, in key order

GroupbyMedian(by, keycols, shap) ==
    Aggregate(by, keycols, shap,
              SortedKeys(Range(KeyAt(keycols, Len(shap))), KeyDtypes(keycols)))

_calculate_median_shap_df(feature_col, data, shapdf, segment_col) ==
    IF ~HasCol(data, feature_col) THEN Raised("KeyError", feature_col)
    ELSE IF segment_col # None /\ ~HasCol(data, segment_col)
         THEN Raised("KeyError", segment_col)
    ELSE IF ~HasCol(shapdf, feature_col) THEN Raised("KeyError", feature_col)
    ELSE IF segment_col # None
         THEN [exc |-> None, arg |-> None,
               df  |-> GroupbyMedian(<<feature_col, segment_col>>,
                                     <<data.col[feature_col], data.col[segment_col]>>,
                                     shapdf.col[feature_col].values)]
         ELSE [exc |-> None, arg |-> None,
               df  |-> GroupbyMedian(<<feature_col>>,
                                     <<data.col[feature_col]>>,
                                     shapdf.col[feature_col].values)]

----------------------------------------------------------------------------
(* plot_utils.py: _color_by_segment_col *)

\* a palette of nine entries, two of them the same colour
Set1Repeating == <<"red", "blue", "green", "purple", "orange",
                   "yellow", "brown", "red", "grey">>

\* matplotlib.cm.get_cmap("Set1").colors: the nine colours of the palette
Set1 == <<"red", "blue", "green", "purple", "orange",
          "yellow", "brown", "pink", "grey">>

\* color_dir[key] for a dict kept as [dtype, keys, colors]: a key of another
\* type than the dict's keys is never found
DictHas(color_dir, dtype, key) ==
    /\ color_dir.dtype = dtype
    /\ \E i \in 1..Len(color_dir.keys) : color_dir.keys[i] = key

DictGet(color_dir, key) == color_dir.colors[IndexOf(color_dir.keys, key)]

\* a colouring that starts the palette over when it runs out
ColorCycling(segment_col_df) ==
    LET cats == unique(segment_col_df.values)
        color_dir == [dtype  |-> segment_col_df.dtype,
                      keys   |-> cats,
                      colors |-> [i \in 1..Len(cats) |-> Set1[((i - 1) % Len(Set1)) + 1]]]
    IN  [exc       |-> None,
         arg       |-> None,
         color_col |-> [k \in 1..Len(segment_col_df.values) |->
                           DictGet(color_dir, segment_col_df.values[k])],
         color_dir |-> color_dir]

\* a colouring that enumerates the rows, not the distinct labels: a label
\* gets the palette entry of the last row that carries it
ColorByRow(segment_col_df) ==
    LET vals == segment_col_df.values
        cats == unique(vals)
        LastRow(v) == CHOOSE i \in 1..Len(vals) :
                         vals[i] = v /\ \A j \in (i + 1)..Len(vals) : vals[j] # v
    IN  IF Len(vals) > Len(Set1) THEN Raised("IndexError", "tuple index out of range")
        ELSE LET color_dir == [dtype  |-> segment_col_df.dtype,
                               keys   |-> cats,
                               colors |-> [i \in 1..Len(cats) |-> Set1[LastRow(cats[i])]]]
             IN  [exc       |-> None,
                  arg       |-> None,
                  color_col |-> [k \in 1..Len(vals) |-> DictGet(color_dir, vals[k])],
                  color_dir |-> color_dir]

_color_by_segment_col(segment_col_df) ==
    LET cats == unique(segment_col_df.values)
    IN  IF Len(cats) > Len(Set1) THEN Raised("IndexError", "tuple index out of range")
        ELSE LET color_dir == [dtype  |-> segment_col_df.dtype,
                               keys   |-> cats,
                               colors |-> [i \in 1..Len(cats) |-> Set1[i]]]
             IN  [exc       |-> None,
                  arg       |-> None,
                  color_col |-> [k \in 1..Len(segment_col_df.values) |->
                                    DictGet(color_dir, segment_col_df.values[k])],
                  color_dir |-> color_dir]

----------------------------------------------------------------------------
(* pandas.qcut(series, 4), as plot_shap_dependence_plot_by_segment calls it *)

\* four times the k-th quartile edge of the sorted values, by linear
\* interpolation between the two neighbouring values (pandas' default)
QuartileEdge4(t, k) ==
    LET pos4 == (Len(t) - 1) * k
        lo   == pos4 \div 4 + 1
        r    == pos4 % 4
    IN  IF r = 0 THEN 4 * t[lo] ELSE 4 * t[lo] + r * (t[lo + 1] - t[lo])

\* the bucket of a value: the first interval (edge[j-1], edge[j]] that holds
\* it, the lowest edge included; an Interval is [left, right] in quarters
qcut(segment, q) ==
    LET t     == sorted(segment.values)
        edges == [k \in 0..q |-> QuartileEdge4(t, k)]
        bin(v) == CHOOSE j \in 1..q :
                     /\ 4 * v <= edges[j]
                     /\ \A i \in 1..(j - 1) : 4 * v > edges[i]
    IN  IF \E i, j \in 0..q : i # j /\ edges[i] = edges[j]
        THEN Raised("ValueError", "Bin edges must be unique")
        ELSE [exc |-> None, arg |-> None,
              series |-> Series("category",
                                [i \in 1..Len(segment.values) |->
                                    [left  |-> edges[bin(segment.values[i]) - 1],
                                     right |-> edges[bin(segment.values[i])]]])]

----------------------------------------------------------------------------
(* plot_utils.py: the layers drawn on pyplot's current figure *)

\* an absent axis limit (None) is the empty sequence
NoLim == <<>>
\* an absent colour dictionary (None)
NoDict == [dtype |-> None, keys |-> <<>>, colors |-> <<>>]

\* the rows of median_shap_df whose segment is cur_cate, as (x, Median) columns
MedianLineOf(median_shap_df, feature_col, segment_col, cur_cate) ==
    LET keep == [r \in 1..median_shap_df.n |->
                    median_shap_df.col[segment_col].values[r] = cur_cate]
    IN  [x |-> Pick(median_shap_df.col[feature_col].values, keep, 1),
         y |-> Pick(median_shap_df.col["Median"].values, keep, 1)]

\* the lines of the loop over the categories, up to and without the first
\* category that color_dir lacks
RECURSIVE MedianLines(_, _, _, _, _, _)
MedianLines(cats, i, median_shap_df, feature_col, segment_col, color_dir) ==
    IF i > Len(cats)
       \/ ~DictHas(color_dir, median_shap_df.col[segment_col].dtype, cats[i])
    THEN <<>>
    ELSE <<[kind  |-> "line",
            data  |-> MedianLineOf(median_shap_df, feature_col, segment_col, cats[i]),
            label |-> <<segment_col, ToString(cats[i])>>,
            color |-> DictGet(color_dir, cats[i])]>>
         \o MedianLines(cats, i + 1, median_shap_df, feature_col, segment_col, color_dir)

\* a median step whose plt.legend() is not under `if plot_median_line`
PlotMedianLegendAlways(plot_median_line, median_shap_df, feature_col, segment_col, color_dir, f) ==
    IF plot_median_line
    THEN [exc |-> None, arg |-> None,
          fig |-> f \o <<[kind  |-> "line",
                          data  |-> [x |-> median_shap_df.col[feature_col].values,
                                     y |-> median_shap_df.col["Median"].values],
                          label |-> <<feature_col>>,
                          color |-> "auto"],
                         [kind |-> "legend", loc |-> "best"]>>]
    ELSE [exc |-> None, arg |-> None, fig |-> f \o <<[kind |-> "legend", loc |-> "best"]>>]

_plot_median(plot_median_line, median_shap_df, feature_col, segment_col, color_dir, f) ==
    IF ~plot_median_line THEN [exc |-> None, arg |-> None, fig |-> f]
    ELSE IF segment_col = None
    THEN [exc |-> None, arg |-> None,
          fig |-> f \o <<[kind  |-> "line",
                          data  |-> [x |-> median_shap_df.col[feature_col].values,
                                     y |-> median_shap_df.col["Median"].values],
                          label |-> <<feature_col>>,
                          color |-> "auto"],
                         [kind |-> "legend", loc |-> "best"]>>]
    ELSE LET cats  == unique(median_shap_df.col[segment_col].values)
             dict  == IF color_dir.dtype # None THEN color_dir
                      ELSE [dtype  |-> median_shap_df.col[segment_col].dtype,
                            keys   |-> cats,
                            colors |-> [i \in 1..Len(cats) |-> Set1[i]]]
             lines == MedianLines(cats, 1, median_shap_df, feature_col, segment_col, dict)
         IN  IF color_dir.dtype = None /\ Len(cats) > Len(Set1)
             THEN [exc |-> "IndexError", arg |-> "tuple index out of range", fig |-> f]
             ELSE IF Len(lines) < Len(cats)
             THEN [exc |-> "KeyError", arg |-> ToString(cats[Len(lines) + 1]),
                   fig |-> f \o lines]
             ELSE [exc |-> None, arg |-> None,
                   fig |-> f \o lines \o <<[kind |-> "legend", loc |-> "best"]>>]

_set_axis_limit(selected_xlim, selected_ylim, f) ==
    f \o (IF selected_xlim # NoLim THEN <<[kind |-> "set_xlim", lim |-> selected_xlim]>>
          ELSE <<>>)
      \o (IF selected_ylim # NoLim THEN <<[kind |-> "set_ylim", lim |-> selected_ylim]>>
          ELSE <<>>)

_plot_histogram(plot_histogram, feature_col, data, nbins, f) ==
    IF ~plot_histogram THEN f
    ELSE f \o <<[kind |-> "twinx"],
                [kind |-> "hist", x |-> data.col[feature_col].values, bins |-> nbins],
                [kind |-> "legend", loc |-> "upper left"]>>

----------------------------------------------------------------------------
(* plot_utils.py: plot_shap_dependence_plot_by_segment *)

\* the colouring step: nothing without a segment column, the raw labels of a
\* column outside numeric_cols, the quartile buckets of one inside
ColorStep(params, data, segment_col) ==
    IF segment_col = None
    THEN [exc |-> None, arg |-> None, color_col |-> <<>>, color_dir |-> NoDict]
    ELSE IF segment_col \notin params.numeric_cols
    THEN _color_by_segment_col(data.col[segment_col])
    ELSE LET segment_col_cat == qcut(data.col[segment_col], 4)
         IN  IF segment_col_cat.exc # None THEN segment_col_cat
             ELSE _color_by_segment_col(segment_col_cat.series)

\* the scatter, the title and axis labels, and the legend of the segments
ScatterLayers(params, feature_col, shapdf, data, segment_col, colors) ==
    <<[kind |-> "scatter",
       x    |-> data.col[feature_col].values,
       y    |-> shapdf.col[feature_col].values,
       c    |-> colors.color_col],
      [kind |-> "title", text |-> <<feature_col, params.target_var>>],
      [kind |-> "xlabel", text |-> <<feature_col>>],
      [kind |-> "ylabel", text |-> <<"SHAP value">>]>>
    \o (IF segment_col # None
        THEN <<[kind    |-> "legend_handles",
                title   |-> segment_col,
                handles |-> colors.color_dir]>>
        ELSE <<>>)

\* the renderer from its colouring step on, the median table being built
BySegmentDraw(median_shap_df, params, feature_col, shapdf, data, segment_col, plot_median_line, selected_xlim, selected_ylim, figsize, plot_histogram, nbins, f) ==
    LET colors == ColorStep(params, data, segment_col)
    IN  IF colors.exc # None
        THEN [exc |-> colors.exc, arg |-> colors.arg, fig |-> f,
              median_shap_df |-> median_shap_df]
        ELSE
    LET drawn == f \o ScatterLayers(params, feature_col, shapdf, data, segment_col, colors)
        lined == _plot_median(plot_median_line, median_shap_df, feature_col, segment_col,
                              colors.color_dir, drawn)
    IN  IF lined.exc # None
        THEN [exc |-> lined.exc, arg |-> lined.arg, fig |-> lined.fig,
              median_shap_df |-> median_shap_df, color_dir |-> colors.color_dir]
        ELSE [exc |-> None, arg |-> None,
              fig |-> _plot_histogram(plot_histogram, feature_col, data, nbins,
                                      _set_axis_limit(selected_xlim, selected_ylim, lined.fig))
                      \o <<[kind |-> "set_size_inches", size |-> figsize]>>,
              median_shap_df |-> median_shap_df, color_dir |-> colors.color_dir]

\* a renderer that sets the title before it builds the median table
BySegmentTitleFirst(params, feature_col, shapdf, data, segment_col, plot_median_line, selected_xlim, selected_ylim, figsize, plot_histogram, nbins, f) ==
    LET titled == f \o <<[kind |-> "title", text |-> <<feature_col, params.target_var>>]>>
        med    == _calculate_median_shap_df(feature_col, data, shapdf, segment_col)
    IN  IF med.exc # None THEN [exc |-> med.exc, arg |-> med.arg, fig |-> titled]
        ELSE BySegmentDraw(med.df, params, feature_col, shapdf, data, segment_col,
                           plot_median_line, selected_xlim, selected_ylim,
                           figsize, plot_histogram, nbins, titled)

plot_shap_dependence_plot_by_segment(params, feature_col, shapdf, data, segment_col, plot_median_line, selected_xlim, selected_ylim, figsize, plot_histogram, nbins, f) ==
    LET med == _calculate_median_shap_df(feature_col, data, shapdf, segment_col)
    IN  IF med.exc # None THEN [exc |-> med.exc, arg |-> med.arg, fig |-> f]
        ELSE BySegmentDraw(med.df, params, feature_col, shapdf, data, segment_col,
                           plot_median_line, selected_xlim, selected_ylim,
                           figsize, plot_histogram, nbins, f)

----------------------------------------------------------------------------
(* plot_utils.py: plot_shap_dependence_plot_with_interaction *)

\* shap.dependence_plot(ind, shap_values, features, interaction_index, show=False):
\* opens a figure of its own, which becomes the current one, and draws the
\* scatter there, with a colour bar when an interaction column is given
\* ("auto" leaves the choice of the column to the library)
shap_dependence_plot(ind, shapdf, features, interaction_index) ==
    <<[kind |-> "scatter",
       x    |-> features.col[ind].values,
       y    |-> shapdf.col[ind].values,
       c    |-> <<>>,
       interaction_index |-> interaction_index]>>
    \o (IF interaction_index # None
        THEN <<[kind |-> "colorbar", of |-> interaction_index]>>
        ELSE <<>>)

plot_shap_dependence_plot_with_interaction(feature_col, shapdf, data, interaction_col, plot_median_line, selected_xlim, selected_ylim, plot_histogram, nbins, f) ==
    LET med == _calculate_median_shap_df(feature_col, data, shapdf, None)
    IN  IF med.exc # None THEN [exc |-> med.exc, arg |-> med.arg, fig |-> f]
        ELSE IF \E i \in 1..Len(shapdf.columns) : ~HasCol(data, shapdf.columns[i])
        THEN [exc |-> "KeyError", arg |-> "not in index", fig |-> f]
        ELSE
    LET drawn == shap_dependence_plot(feature_col, shapdf, data, interaction_col)
                 \o <<[kind |-> "title", text |-> <<feature_col, "target variable">>]>>
        lined == _plot_median(plot_median_line, med.df, feature_col, None, NoDict, drawn)
    IN  [exc |-> None, arg |-> None,
         fig |-> _plot_histogram(plot_histogram, feature_col, data, nbins,
                                 _set_axis_limit(selected_xlim, selected_ylim, lined.fig)),
         median_shap_df |-> med.df]

----------------------------------------------------------------------------
(* The tables and the page as loaded, and the states that stay put *)

LabelFrame(xs, ys, shaps) ==
    [columns |-> <<"x", "y">>,
     n       |-> Len(xs),
     col     |-> [x |-> Series("int64", xs), y |-> Series("object", ys)]]

ShapFrame(shaps) ==
    [columns |-> <<"x">>,
     n       |-> Len(shaps),
     col     |-> [x |-> Series("float64", shaps)]]

EmptyFrame == [columns |-> <<>>, n |-> 0, col |-> <<>>]

NoCall == [fn |-> None]

\* no direct call of _color_by_segment_col made yet
NoColoring == [made |-> FALSE, input |-> <<>>, ret |-> Returned]
NoColored == [latest |-> NoColoring, previous |-> NoColoring]

\* the callbacks of the page, by the tab whose image they produce
Tabs == {1, 2, 3}

\* the value= of every input control in app.layout
InitControls ==
    [plot_type         |-> "bar",
     feature_name_tab2 |-> None,
     interaction_name  |-> "auto",
     median_line_tab2  |-> "no",
     feature_name_tab3 |-> None,
     segment_name      |-> None,
     median_line_tab3  |-> "no"]

\* the Input values a callback is fired with
InputsOf(t, c) ==
    IF t = 1 THEN [plot_type |-> c.plot_type]
    ELSE IF t = 2
    THEN [feature_name     |-> c.feature_name_tab2,
          interaction_name |-> c.interaction_name,
          median_line      |-> c.median_line_tab2]
    ELSE [feature_name |-> c.feature_name_tab3,
          segment_name |-> c.segment_name,
          median_line  |-> c.median_line_tab3]

\* the src="" of the html.Img outputs in app.layout
EmptySrc == [uri |-> "", png |-> <<>>]
\* a src set to null
NullSrc == [uri |-> None, png |-> <<>>]

NotServed(t) == [served |-> FALSE, args |-> InputsOf(t, InitControls),
                 outcome |-> "", value |-> EmptySrc]

\* the page of a library session: nothing is served
AppAtRest ==
    /\ controls = InitControls
    /\ pc = [t \in Tabs |-> "idle"]
    /\ req = [t \in Tabs |-> InputsOf(t, InitControls)]
    /\ slots = [t \in Tabs |-> EmptySrc]
    /\ last = [t \in Tabs |-> NotServed(t)]
    /\ nchanges = 0

----------------------------------------------------------------------------
(* The aggregation applied to every small table *)

InitMedian ==
    /\ \E n \in 0..MaxRows :
         \E xs \in [1..n -> XVals], ys \in [1..n -> YVals], ss \in [1..n -> ShapVals] :
            /\ data_df = LabelFrame(xs, ys, ss)
            /\ shap_value_df = ShapFrame(ss)
    /\ call = NoCall
    /\ ret = Returned
    /\ fig = <<>>
    /\ colored = NoColored
    /\ AppAtRest

MedianCall ==
    \E feature_col \in {"x", "w"}, segment_col \in {None, "y", "w"} :
        /\ call' = [fn |-> "_calculate_median_shap_df",
                    feature_col |-> feature_col, segment_col |-> segment_col]
        /\ ret' = _calculate_median_shap_df(feature_col, data_df, shap_value_df, segment_col)
        /\ UNCHANGED <<data_df, shap_value_df, fig, colored>>
        /\ UNCHANGED appvars

SpecMedian == InitMedian /\ [][MedianCall]_vars

----------------------------------------------------------------------------
(* The colouring applied to every short label sequence *)

InitColor ==
    /\ data_df = EmptyFrame
    /\ shap_value_df = EmptyFrame
    /\ call = NoCall
    /\ ret = Returned
    /\ fig = <<>>
    /\ colored = NoColored
    /\ AppAtRest

ColorCall ==
    \E n \in 0..MaxLen :
        \E labels \in [1..n -> Range(Alphabet)] :
            /\ call' = [fn |-> "_color_by_segment_col",
                        segment_col_df |-> Series("object", labels)]
            /\ ret' = _color_by_segment_col(Series("object", labels))
            /\ UNCHANGED <<data_df, shap_value_df, fig, colored>>
            /\ UNCHANGED appvars

SpecColor == InitColor /\ [][ColorCall]_vars

----------------------------------------------------------------------------
(* The colouring applied to label sequences of up to and beyond nine       *)
(* distinct labels                                                         *)

\* distinct labels of the sequences the colouring is applied to
MaxDistinct == 10
\* the labels of a column of many categories
Letters == <<"A", "B", "C", "D", "E", "F", "G", "H", "I", "J", "K", "L">>

\* n distinct labels, from the one after Letters[s] on, and then once more
\* the rep-th of them when rep is not 0
LabelRun(n, s, rep) ==
    LET run == [i \in 1..n |-> Letters[((s + i - 1) % Len(Letters)) + 1]]
    IN  IF rep = 0 THEN run ELSE Append(run, run[rep])

\* a table of the one column y
ColumnFrame(labels) ==
    [columns |-> <<"y">>,
     n       |-> Len(labels),
     col     |-> [y |-> Series("object", labels)]]

InitPalette ==
    /\ \E n \in 0..MaxDistinct :
         \E s \in 0..(Len(Letters) - 1), rep \in 0..n :
            data_df = ColumnFrame(LabelRun(n, s, rep))
    /\ shap_value_df = EmptyFrame
    /\ call = NoCall
    /\ ret = Returned
    /\ fig = <<>>
    /\ colored = NoColored
    /\ AppAtRest

\* _color_by_segment_col(data_df[segment_col])
PaletteCall ==
    /\ call = NoCall
    /\ call' = [fn |-> "_color_by_segment_col", segment_col_df |-> data_df.col["y"]]
    /\ ret' = _color_by_segment_col(data_df.col["y"])
    /\ UNCHANGED <<data_df, shap_value_df, fig, colored>>
    /\ UNCHANGED appvars

SpecPalette == InitPalette /\ [][PaletteCall]_vars

----------------------------------------------------------------------------
(* The quartile binning of the renderer applied to every short numeric column *)

\* rows of the columns the binning is applied to
MaxBinRows == 4
\* the values of a numeric segment column
BinVals == {1, 2, 3, 4}

InitBin ==
    /\ data_df = EmptyFrame
    /\ shap_value_df = EmptyFrame
    /\ call = NoCall
    /\ ret = Returned
    /\ fig = <<>>
    /\ colored = NoColored
    /\ AppAtRest

\* segment_col_cat = pd.qcut(data_df[segment_col], 4)
QcutCall ==
    \E n \in 1..MaxBinRows :
        \E values \in [1..n -> BinVals] :
            /\ call' = [fn |-> "pd.qcut", segment |-> Series("int64", values)]
            /\ ret' = qcut(Series("int64", values), 4)
            /\ UNCHANGED <<data_df, shap_value_df, fig, colored>>
            /\ UNCHANGED appvars

SpecBin == InitBin /\ [][QcutCall]_vars

----------------------------------------------------------------------------
(* The two renderers called on a clean figure with every small table *)

\* the attribution of row i for the plotted feature
RowShap == <<4, 8, -2>>
RenderShap(n) == [i \in 1..n |-> RowShap[((i - 1) % Len(RowShap)) + 1]]

\* train_x: the model's features x and z and the context column y;
\* shap_values: one column per feature of the model
RenderFrame(xs, ys, zs) ==
    [columns |-> <<"x", "y", "z">>,
     n       |-> Len(xs),
     col     |-> [x |-> Series("int64", xs), y |-> Series("object", ys),
                  z |-> Series("int64", zs)]]

RenderShapFrame(n) ==
    [columns |-> <<"x", "z">>,
     n       |-> n,
     col     |-> [x |-> Series("float64", RenderShap(n)),
                  z |-> Series("float64", [i \in 1..n |-> 0])]]

InitRender ==
    /\ \E n \in 1..MaxRenderRows :
         \E xs \in [1..n -> XVals], ys \in [1..n -> YVals], zs \in [1..n -> ZVals] :
            /\ data_df = RenderFrame(xs, ys, zs)
            /\ shap_value_df = RenderShapFrame(n)
    /\ call = NoCall
    /\ ret = Returned
    /\ fig = <<>>
    /\ colored = NoColored
    /\ AppAtRest

\* the defaults of the renderers' signatures
figsize == <<15, 10>>
nbins == 35

\* the axis limits a caller passes
LimArgs == {<<NoLim, NoLim>>, <<<<0, 3>>, NoLim>>, <<NoLim, <<-4, 10>>>>}
\* parameters.yml as the renderer reads it
ParamArgs == {[numeric_cols |-> {"z"}, target_var |-> "target"],
              [numeric_cols |-> {}, target_var |-> "target"]}

BySegmentArgs ==
    [params : ParamArgs, feature_col : {"x"}, segment_col : {None, "y", "z", "w"},
     plot_median_line : BOOLEAN, lims : LimArgs, plot_histogram : BOOLEAN]
    \cup
    [params : {[numeric_cols |-> {"z"}, target_var |-> "target"]},
     feature_col : {"y", "w"}, segment_col : {None, "y", "z", "w"},
     plot_median_line : BOOLEAN, lims : {<<NoLim, NoLim>>}, plot_histogram : {TRUE}]

WithInteractionArgs ==
    [feature_col : {"x"}, interaction_col : {None, "auto", "z"},
     plot_median_line : BOOLEAN, lims : LimArgs, plot_histogram : BOOLEAN]
    \cup
    [feature_col : {"y", "w"}, interaction_col : {None, "auto", "z"},
     plot_median_line : {FALSE}, lims : {<<NoLim, NoLim>>}, plot_histogram : {TRUE}]

RenderBySegment ==
    /\ call = NoCall
    /\ \E a \in BySegmentArgs :
         LET r == plot_shap_dependence_plot_by_segment(
                      a.params, a.feature_col, shap_value_df, data_df, a.segment_col,
                      a.plot_median_line, a.lims[1], a.lims[2], figsize,
                      a.plot_histogram, nbins, fig)
         IN  /\ call' = a @@ [fn |-> "plot_shap_dependence_plot_by_segment"]
             /\ ret' = r
             /\ fig' = r.fig
    /\ UNCHANGED <<data_df, shap_value_df, colored>>
    /\ UNCHANGED appvars

RenderWithInteraction ==
    /\ call = NoCall
    /\ \E a \in WithInteractionArgs :
         LET r == plot_shap_dependence_plot_with_interaction(
                      a.feature_col, shap_value_df, data_df, a.interaction_col,
                      a.plot_median_line, a.lims[1], a.lims[2],
                      a.plot_histogram, nbins, fig)
         IN  /\ call' = a @@ [fn |-> "plot_shap_dependence_plot_with_interaction"]
             /\ ret' = r
             /\ fig' = r.fig
    /\ UNCHANGED <<data_df, shap_value_df, colored>>
    /\ UNCHANGED appvars

NextRender == RenderBySegment \/ RenderWithInteraction

SpecRender == InitRender /\ [][NextRender]_vars

----------------------------------------------------------------------------
(* pipelines/data_science/nodes.py and pipelines/shap/nodes.py: the nodes  *)
(* that fit the model, predict with it and compute the attribution matrix. *)
(* The pipeline hands every node the same parameters and tables of the     *)
(* same columns.                                                           *)

\* rows of the table the pipeline is run on
MaxPipelineRows == 2

\* a column list that keeps the context columns
all_cols(columns, context_cols) == columns

\* feature_cols = [x for x in train_x.columns if x not in context_cols]
feature_cols(columns, context_cols) ==
    LET keep == [i \in 1..Len(columns) |-> columns[i] \notin context_cols]
    IN  Pick(columns, keep, 1)

\* train_x[feature_cols]
SelectCols(df, cols) ==
    [columns |-> cols, n |-> df.n, col |-> [c \in Range(cols) |-> df.col[c]]]

\* RandomForestRegressor.fit(X, y): X must have a row, a column and numbers
\* only; the fitted model knows how many features it was given
fit(X) ==
    IF X.n = 0 THEN Raised("ValueError", "Found array with 0 sample(s)")
    ELSE IF X.columns = <<>> THEN Raised("ValueError", "Found array with 0 feature(s)")
    ELSE IF \E c \in Range(X.columns) : X.col[c].dtype = "object"
    THEN Raised("ValueError", "could not convert string to float")
    ELSE [exc |-> None, arg |-> None,
          model |-> [n_features_ |-> Len(X.columns), fitted_on |-> X.columns]]

train_model(train_x, parameters) ==
    fit(SelectCols(train_x, feature_cols(train_x.columns, parameters.context_cols)))

\* model.predict(X): one prediction per row, for as many features as fitted
predict(model, test_x, parameters) ==
    LET X == SelectCols(test_x, feature_cols(test_x.columns, parameters.context_cols))
    IN  IF Len(X.columns) # model.n_features_
        THEN Raised("ValueError", "Number of features of the model must match the input")
        ELSE [exc |-> None, arg |-> None,
              pred_y |-> [i \in 1..X.n |-> 0],
              predicted_on |-> X.columns]

\* shap.TreeExplainer(model).shap_values(X): one row per row of X, one column
\* per column of X; the values are the library's and are kept as 0 here
calculate_shap(model, train_x, parameters) ==
    LET X == SelectCols(train_x, feature_cols(train_x.columns, parameters.context_cols))
    IN  IF Len(X.columns) # model.n_features_
        THEN Raised("ValueError", "Number of features of the model must match the input")
        ELSE [exc |-> None, arg |-> None,
              shap_values |-> [columns |-> X.columns,
                               n       |-> X.n,
                               col     |-> [c \in Range(X.columns) |->
                                              Series("float64", [i \in 1..X.n |-> 0])]]]

\* the tables of some of the columns x, y (labels) and z, in any order
PipelineColumns ==
    {cols \in UNION {[1..k -> {"x", "y", "z"}] : k \in 0..3} :
        \A i, j \in 1..Len(cols) : i # j => cols[i] # cols[j]}

PipelineFrame(cols, n) ==
    [columns |-> cols,
     n       |-> n,
     col     |-> [c \in Range(cols) |->
                    IF c = "y" THEN Series("object", [i \in 1..n |-> "A"])
                    ELSE Series("int64", [i \in 1..n |-> i])]]

\* parameters.yml as the nodes read it
PipelineParams == [context_cols : SUBSET {"y", "z"}]

InitPipeline ==
    /\ \E cols \in PipelineColumns, n \in 0..MaxPipelineRows :
          data_df = PipelineFrame(cols, n)
    /\ shap_value_df = EmptyFrame
    /\ call = NoCall
    /\ ret = Returned
    /\ fig = <<>>
    /\ colored = NoColored
    /\ AppAtRest

\* the model and the parameters the pipeline holds after train_model returned
ModelFitted ==
    \/ call.fn = "train_model" /\ ret.exc = None
    \/ call.fn \in {"predict", "calculate_shap"}

FittedModel == IF call.fn = "train_model" THEN ret.model ELSE call.model

RunTrainModel ==
    /\ call = NoCall
    /\ \E parameters \in PipelineParams :
          /\ call' = [fn |-> "train_model", parameters |-> parameters]
          /\ ret' = train_model(data_df, parameters)
    /\ UNCHANGED <<data_df, shap_value_df, fig, colored>>
    /\ UNCHANGED appvars

RunPredict ==
    /\ ModelFitted
    /\ call' = [fn |-> "predict", model |-> FittedModel, parameters |-> call.parameters]
    /\ ret' = predict(FittedModel, data_df, call.parameters)
    /\ UNCHANGED <<data_df, shap_value_df, fig, colored>>
    /\ UNCHANGED appvars

RunCalculateShap ==
    /\ ModelFitted
    /\ LET r == calculate_shap(FittedModel, data_df, call.parameters)
       IN  /\ call' = [fn |-> "calculate_shap", model |-> FittedModel,
                       parameters |-> call.parameters]
           /\ ret' = r
           /\ shap_value_df' = IF r.exc = None THEN r.shap_values ELSE shap_value_df
    /\ UNCHANGED <<data_df, fig, colored>>
    /\ UNCHANGED appvars

NextPipeline ==
    \/ RunTrainModel
    \/ RunPredict
    \/ RunCalculateShap

SpecPipeline == InitPipeline /\ [][NextPipeline]_vars

----------------------------------------------------------------------------
(* plot_utils.py: the extraction of the image *)

\* plot_utils._fig_to_uri(fig), which demo.py imports: the figure is saved
\* as a PNG and encoded in a data URI, then cleared and closed
_fig_to_uri(f) ==
    [src |-> [uri |-> "data:image/png;base64", png |-> f],
     fig |-> <<>>]

----------------------------------------------------------------------------
(* One process that calls the library again and again: pyplot's current    *)
(* figure lives on between the calls.  A render that returned has its      *)
(* image extracted at once, as the callbacks of demo.py do; after a render *)
(* that raised nobody touches the figure.                                  *)

\* layers the current figure may hold when one more render is drawn on it
MaxLayers == 5
\* length of the label sequences coloured in a session
MaxSessionLen == 2

RenderFns == {"plot_shap_dependence_plot_by_segment",
              "plot_shap_dependence_plot_with_interaction"}

\* a render returned and its image is still on the current figure
ImagePending == call.fn \in RenderFns /\ ret.exc = None

InitSession ==
    /\ \E ys \in [1..2 -> YVals] :
          /\ data_df = RenderFrame(<<1, 2>>, ys, <<1, 2>>)
          /\ shap_value_df = RenderShapFrame(2)
    /\ call = NoCall
    /\ ret = Returned
    /\ fig = <<>>
    /\ colored = NoColored
    /\ AppAtRest

SessionBySegmentArgs ==
    [params : {[numeric_cols |-> {"z"}, target_var |-> "target"]},
     feature_col : {"x"}, segment_col : {None, "y", "z"},
     plot_median_line : BOOLEAN, lims : {<<NoLim, NoLim>>}, plot_histogram : {FALSE}]

SessionWithInteractionArgs ==
    [feature_col : {"x"}, interaction_col : {"auto"},
     plot_median_line : BOOLEAN, lims : {<<NoLim, NoLim>>}, plot_histogram : {FALSE}]

\* the render of a call record on the figure f
RenderOf(c, f) ==
    IF c.fn = "plot_shap_dependence_plot_by_segment"
    THEN plot_shap_dependence_plot_by_segment(
             c.params, c.feature_col, shap_value_df, data_df, c.segment_col,
             c.plot_median_line, c.lims[1], c.lims[2], figsize,
             c.plot_histogram, nbins, f)
    ELSE plot_shap_dependence_plot_with_interaction(
             c.feature_col, shap_value_df, data_df, c.interaction_col,
             c.plot_median_line, c.lims[1], c.lims[2],
             c.plot_histogram, nbins, f)

SessionRender(c) ==
    /\ ~ImagePending
    /\ Len(fig) <= MaxLayers
    /\ LET r == RenderOf(c, fig)
       IN  /\ call' = c
           /\ ret' = r
           /\ fig' = r.fig
    /\ UNCHANGED <<data_df, shap_value_df, colored>>
    /\ UNCHANGED appvars

SessionBySegment ==
    \E a \in SessionBySegmentArgs :
        SessionRender(a @@ [fn |-> "plot_shap_dependence_plot_by_segment"])

SessionWithInteraction ==
    \E a \in SessionWithInteractionArgs :
        SessionRender(a @@ [fn |-> "plot_shap_dependence_plot_with_interaction"])

\* fig = plt.gcf(); _fig_to_uri(fig)
SessionExtract ==
    /\ ImagePending
    /\ call' = [fn |-> "_fig_to_uri"]
    /\ ret' = [exc |-> None, arg |-> None, src |-> _fig_to_uri(fig).src]
    /\ fig' = _fig_to_uri(fig).fig
    /\ UNCHANGED <<data_df, shap_value_df, colored>>
    /\ UNCHANGED appvars

\* a direct call of _color_by_segment_col, kept with the one before it
SessionColor ==
    /\ ~ImagePending
    /\ \E n \in 0..MaxSessionLen :
         \E labels \in [1..n -> YVals] :
            LET r == _color_by_segment_col(Series("object", labels))
            IN  /\ call' = [fn |-> "_color_by_segment_col",
                            segment_col_df |-> Series("object", labels)]
                /\ ret' = r
                /\ colored' = [latest   |-> [made |-> TRUE, input |-> labels, ret |-> r],
                               previous |-> colored.latest]
    /\ UNCHANGED <<data_df, shap_value_df, fig>>
    /\ UNCHANGED appvars

NextSession ==
    \/ SessionBySegment
    \/ SessionWithInteraction
    \/ SessionExtract
    \/ SessionColor

SpecSession == InitSession /\ [][NextSession]_vars

----------------------------------------------------------------------------
(* demo.py: the Dash front end.  app.run_server serves every callback      *)
(* request on a thread of its own, so the requests of different callbacks  *)
(* interleave; pyplot's current figure is shared by all of them.  The      *)
(* model keeps at most one request per callback in flight.                 *)

\* shap.summary_plot(..., plot_type, show=False): draws on the current figure
shap_summary_plot(plot_type, f) == f \o <<[kind |-> "summary", plot_type |-> plot_type]>>

\* `if feature_name:`
Truthy(v) == v # None /\ v # ""

\* the call of demo.py line 364: Python binds the keyword arguments to the
\* signature before it runs the body
CallBySegment(kwargs, f) ==
    IF "params" \notin DOMAIN kwargs
    THEN [exc |-> "TypeError",
          arg |-> "missing 1 required positional argument: 'params'",
          fig |-> f]
    ELSE plot_shap_dependence_plot_by_segment(
             kwargs.params, kwargs.feature_col, kwargs.shap_value_df, kwargs.data_df,
             kwargs.segment_col, kwargs.plot_median_line, NoLim, NoLim, figsize,
             TRUE, nbins, f)

\* the tables read at start-up (demo.py lines 55 and 56)
InitApp ==
    /\ \E ys \in [1..2 -> YVals] :
          /\ data_df = RenderFrame(<<1, 2>>, ys, <<1, 2>>)
          /\ shap_value_df = RenderShapFrame(2)
    /\ call = NoCall
    /\ ret = Returned
    /\ fig = <<>>
    /\ colored = NoColored
    /\ controls = InitControls
    \* the page load fires every callback with the initial values
    /\ pc = [t \in Tabs |-> "called"]
    /\ req = [t \in Tabs |-> InputsOf(t, InitControls)]
    /\ slots = [t \in Tabs |-> EmptySrc]
    /\ last = [t \in Tabs |-> NotServed(t)]
    /\ nchanges = 0

\* the options of the dropdowns and radio items (a dropdown can be cleared)
FeatureOptions == Range(shap_value_df.columns) \cup {None}
InteractionOptions == Range(shap_value_df.columns) \cup {None}
\* a segment dropdown that offers every column of train_x
SegmentOptionsAll == Range(data_df.columns) \cup {None}

SegmentOptions ==
    {c \in Range(data_df.columns) : Cardinality(Range(data_df.col[c].values)) <= 5}
    \cup {None}

OptionsOf(name) ==
    IF name = "plot_type" THEN {"dot", "bar"}
    ELSE IF name \in {"feature_name_tab2", "feature_name_tab3"} THEN FeatureOptions
    ELSE IF name = "interaction_name" THEN InteractionOptions
    ELSE IF name = "segment_name" THEN SegmentOptions
    ELSE {"yes", "no"}

TabOf(name) ==
    IF name = "plot_type" THEN 1
    ELSE IF name \in {"feature_name_tab2", "interaction_name", "median_line_tab2"} THEN 2
    ELSE 3

\* the user gives a control of one of the tabs another value: its callback
\* is fired with the values the controls of its tab now have
ControlChangeOn(tabs) ==
    /\ nchanges < MaxChanges
    /\ \E name \in {c \in DOMAIN controls : TabOf(c) \in tabs} :
         \E v \in OptionsOf(name) \ {controls[name]} :
            /\ pc[TabOf(name)] = "idle"
            /\ controls' = [controls EXCEPT ![name] = v]
            /\ pc' = [pc EXCEPT ![TabOf(name)] = "called"]
            /\ req' = [req EXCEPT ![TabOf(name)] = InputsOf(TabOf(name), controls')]
    /\ nchanges' = nchanges + 1
    /\ UNCHANGED <<slots, last>>
    /\ UNCHANGED libvars

ControlChange == ControlChangeOn(Tabs)

Serve(t, outcome, value) ==
    last' = [last EXCEPT ![t] = [served |-> TRUE, args |-> req[t],
                                 outcome |-> outcome, value |-> value]]

\* a callback that drew: plt.tight_layout(), plt.gcf(), _fig_to_uri(fig), and
\* the returned URI becomes the src of the callback's Output
Extract(t) ==
    /\ pc[t] = "drawn"
    /\ LET out == _fig_to_uri(fig)
       IN  /\ fig' = out.fig
           /\ slots' = [slots EXCEPT ![t] = out.src]
           /\ Serve(t, "image", out.src)
    /\ pc' = [pc EXCEPT ![t] = "idle"]
    /\ UNCHANGED <<data_df, shap_value_df, call, ret, colored, controls, req, nchanges>>

\* a callback that returned without a return statement: its Output is set to
\* the None it returned
ReturnNone(t) ==
    /\ slots' = [slots EXCEPT ![t] = NullSrc]
    /\ Serve(t, "None", NullSrc)
    /\ pc' = [pc EXCEPT ![t] = "idle"]
    /\ UNCHANGED <<controls, req, nchanges>>
    /\ UNCHANGED libvars

\* a callback that raised: the request fails and its Output is not updated
Fail(t, r) ==
    /\ Serve(t, r.exc, slots[t])
    /\ pc' = [pc EXCEPT ![t] = "idle"]
    /\ fig' = r.fig
    /\ UNCHANGED <<data_df, shap_value_df, call, ret, colored, controls, req, slots, nchanges>>

Drew(t, f) ==
    /\ fig' = f
    /\ pc' = [pc EXCEPT ![t] = "drawn"]
    /\ UNCHANGED <<data_df, shap_value_df, call, ret, colored, controls, req, slots, last, nchanges>>

\* _generate_summary_plot up to its drawing
_generate_summary_plot ==
    /\ pc[1] = "called"
    /\ Drew(1, shap_summary_plot(req[1].plot_type, fig))

_generate_summary_plot_extract == Extract(1)

\* _generate_pdp_plot up to its drawing
_generate_pdp_plot ==
    /\ pc[2] = "called"
    /\ IF ~Truthy(req[2].feature_name) THEN ReturnNone(2)
       ELSE LET r == plot_shap_dependence_plot_with_interaction(
                         req[2].feature_name, shap_value_df, data_df,
                         req[2].interaction_name, req[2].median_line = "yes",
                         NoLim, NoLim, TRUE, nbins, fig)
            IN  IF r.exc # None THEN Fail(2, r) ELSE Drew(2, r.fig)

_generate_pdp_plot_extract == Extract(2)

\* _generate_pdp_plot_by_segment up to its drawing
_generate_pdp_plot_by_segment ==
    /\ pc[3] = "called"
    /\ IF ~Truthy(req[3].feature_name) THEN ReturnNone(3)
       ELSE LET r == CallBySegment([feature_col      |-> req[3].feature_name,
                                    shap_value_df    |-> shap_value_df,
                                    data_df          |-> data_df,
                                    segment_col      |-> req[3].segment_name,
                                    plot_median_line |-> req[3].median_line = "yes"],
                                   fig)
            IN  IF r.exc # None THEN Fail(3, r) ELSE Drew(3, r.fig)

_generate_pdp_plot_by_segment_extract == Extract(3)

NextApp ==
    \/ ControlChange
    \/ _generate_summary_plot
    \/ _generate_summary_plot_extract
    \/ _generate_pdp_plot
    \/ _generate_pdp_plot_extract
    \/ _generate_pdp_plot_by_segment
    \/ _generate_pdp_plot_by_segment_extract

SpecApp == InitApp /\ [][NextApp]_vars

----------------------------------------------------------------------------
(* demo.py started on tables whose label column has few or many categories *)

\* how many distinct labels the column y holds: within the limit of the
\* segment dropdown, just beyond it, and beyond the palette
SelectorDistinct == {5, 6, MaxDistinct}

\* a column of MaxDistinct rows that holds k distinct labels
LabelColumn(k) == [i \in 1..MaxDistinct |-> Letters[((i - 1) % k) + 1]]

InitSelector ==
    /\ \E k \in SelectorDistinct :
          /\ data_df = RenderFrame([i \in 1..MaxDistinct |-> ((i - 1) % 2) + 1],
                                   LabelColumn(k),
                                   [i \in 1..MaxDistinct |-> ((i - 1) % 5) + 1])
          /\ shap_value_df = RenderShapFrame(MaxDistinct)
    /\ call = NoCall
    /\ ret = Returned
    /\ fig = <<>>
    /\ colored = NoColored
    /\ controls = InitControls
    /\ pc = [t \in Tabs |-> "called"]
    /\ req = [t \in Tabs |-> InputsOf(t, InitControls)]
    /\ slots = [t \in Tabs |-> EmptySrc]
    /\ last = [t \in Tabs |-> NotServed(t)]
    /\ nchanges = 0

\* the page is loaded and the user works on the controls of tab 3
NextSelector ==
    \/ ControlChangeOn({3})
    \/ _generate_summary_plot
    \/ _generate_summary_plot_extract
    \/ _generate_pdp_plot
    \/ _generate_pdp_plot_extract
    \/ _generate_pdp_plot_by_segment
    \/ _generate_pdp_plot_by_segment_extract

SpecSelector == InitSelector /\ [][NextSelector]_vars

----------------------------------------------------------------------------
(* Claims about _calculate_median_shap_df, under SpecMedian *)

MedianReturned == call.fn = "_calculate_median_shap_df" /\ ret.exc = None

\* the grouping columns of the call made last
ByCols == IF call.segment_col = None THEN <<call.feature_col>>
          ELSE <<call.feature_col, call.segment_col>>

\* the (feature value[, segment label]) tuple of row i of the data
PairOfRow(i) == [j \in 1..Len(ByCols) |-> data_df.col[ByCols[j]].values[i]]
\* and of row r of the returned table
PairOfEntry(r) == [j \in 1..Len(ByCols) |-> ret.df.col[ByCols[j]].values[r]]

\* C1: for a dataset with at least one row, the table compute_median returns
\* has exactly one row per distinct (feature value[, segment label]) pair of
\* the data: none missing, none that the data lacks, none twice.
C1_OneRowPerPair ==
    (MedianReturned /\ data_df.n >= 1) =>
        /\ {PairOfEntry(r) : r \in 1..ret.df.n} = {PairOfRow(i) : i \in 1..data_df.n}
        /\ \A r1, r2 \in 1..ret.df.n : PairOfEntry(r1) = PairOfEntry(r2) => r1 = r2

\* a segmented call on three rows, two of which share their pair
C1_Witness ==
    /\ MedianReturned
    /\ call.segment_col = "y"
    /\ data_df.n = 3
    /\ ret.df.n = 2

\* the attribution values of the data rows that share table row r's pair
GroupRows(r) == {i \in 1..data_df.n : PairOfRow(i) = PairOfEntry(r)}
ShapOf(i) == shap_value_df.col[call.feature_col].values[i]

\* m is the median of the values at rows G: the middle value, or half-way
\* between the two middle values
IsMedianOf(G, m) ==
    LET below == {i \in G : ShapOf(i) < m}
        above == {i \in G : ShapOf(i) > m}
    IN  \/ /\ 2 * Cardinality(below) < Cardinality(G)
           /\ 2 * Cardinality(above) < Cardinality(G)
        \/ /\ G = below \cup above
           /\ Cardinality(below) = Cardinality(above)
           /\ \E a \in below, b \in above :
                 /\ \A i \in below : ShapOf(i) <= ShapOf(a)
                 /\ \A i \in above : ShapOf(i) >= ShapOf(b)
                 /\ 2 * m = ShapOf(a) + ShapOf(b)

\* C2: every row of the table carries the median of the attribution values
\* of exactly the rows sharing its feature value (and segment label); a group
\* of one row yields that row's value; the call raises nothing when its
\* columns exist.
C2_MedianOfGroup ==
    /\ MedianReturned =>
          \A r \in 1..ret.df.n :
             /\ IsMedianOf(GroupRows(r), ret.df.col["Median"].values[r])
             /\ \A i \in GroupRows(r) :
                   GroupRows(r) = {i} => ret.df.col["Median"].values[r] = ShapOf(i)
    /\ (call.fn = "_calculate_median_shap_df"
          /\ call.feature_col = "x" /\ call.segment_col \in {None, "y"})
       => ret.exc = None

\* the scenario of the specification: (1,A,0.2), (1,A,0.4), (2,B,-0.1)
\* segmented by y gives (1,A,0.3) and (2,B,-0.1)
C2_Witness ==
    /\ MedianReturned
    /\ call.segment_col = "y"
    /\ data_df.col["x"].values = <<1, 1, 2>>
    /\ data_df.col["y"].values = <<"A", "A", "B">>
    /\ shap_value_df.col["x"].values = <<4, 8, -2>>
    /\ ret.df.col["x"].values = <<1, 2>>
    /\ ret.df.col["y"].values = <<"A", "B">>
    /\ ret.df.col["Median"].values = <<6, -2>>

----------------------------------------------------------------------------
(* Claims about _color_by_segment_col, under SpecColor *)

ColorReturned == call.fn = "_color_by_segment_col" /\ ret.exc = None

\* the row at which a label first appears
FirstRow(labels, v) ==
    CHOOSE i \in 1..Len(labels) : labels[i] = v /\ \A j \in 1..(i - 1) : labels[j] # v

\* C3: a call with no more distinct labels than palette entries returns, and
\* assign_colors gives the i-th distinct label, in order of first
\* appearance, palette entry i; label_to_color has exactly one entry per
\* distinct label; the per-row list has the input's length and row k carries
\* the colour of row k's label.
C3_FirstSeenColors ==
    (/\ call.fn = "_color_by_segment_col"
     /\ Cardinality(Range(call.segment_col_df.values)) <= Len(Set1)) =>
        LET labels == call.segment_col_df.values
            keys   == ret.color_dir.keys
        IN  /\ ret.exc = None
            /\ Range(keys) = Range(labels)
            /\ Len(keys) = Cardinality(Range(labels))
            /\ \A i, j \in 1..Len(keys) :
                  i < j => FirstRow(labels, keys[i]) < FirstRow(labels, keys[j])
            /\ \A i \in 1..Len(keys) : ret.color_dir.colors[i] = Set1[i]
            /\ Len(ret.color_col) = Len(labels)
            /\ \A k \in 1..Len(labels) :
                  \E i \in 1..Len(keys) :
                     keys[i] = labels[k] /\ ret.color_col[k] = ret.color_dir.colors[i]

\* a call whose labels first appear against their sort order, one repeated
C3_Witness ==
    /\ ColorReturned
    /\ call.segment_col_df.values = <<"B", "A", "B", "C">>
    /\ ret.color_dir.keys = <<"B", "A", "C">>
    /\ ret.color_col = <<"red", "blue", "red", "green">>

----------------------------------------------------------------------------
(* Claims about the palette of _color_by_segment_col, under SpecPalette *)

ColorCalled == call.fn = "_color_by_segment_col"
\* how many distinct labels the call was given
DistinctLabels == Cardinality(Range(call.segment_col_df.values))

\* C14: for an input of at most 9 distinct labels the label-to-color map is
\* one-to-one: every label of the input has exactly one entry, and no two
\* labels have the same palette entry.
C14_OneToOne ==
    (ColorCalled /\ DistinctLabels <= 9) =>
        /\ ret.exc = None
        /\ Range(ret.color_dir.keys) = Range(call.segment_col_df.values)
        /\ Len(ret.color_dir.colors) = Len(ret.color_dir.keys)
        /\ \A i, j \in 1..Len(ret.color_dir.keys) :
              i # j => /\ ret.color_dir.keys[i] # ret.color_dir.keys[j]
                       /\ ret.color_dir.colors[i] # ret.color_dir.colors[j]

\* a column of ten rows that uses the whole palette
C14_Witness ==
    /\ ColorCalled
    /\ ret.exc = None
    /\ Len(call.segment_col_df.values) = 10
    /\ Len(ret.color_dir.keys) = 9
    /\ Range(ret.color_dir.colors) = Range(Set1)

\* C18: a call with more than 9 distinct labels fails with an out-of-range
\* access on the palette and returns no mapping: no palette entry is given
\* twice.
C18_ExhaustionRaises ==
    (ColorCalled /\ DistinctLabels > 9) =>
        /\ ret.exc = "IndexError"
        /\ "color_dir" \notin DOMAIN ret
        /\ "color_col" \notin DOMAIN ret

\* a column of ten distinct labels
C18_Witness ==
    /\ ColorCalled
    /\ DistinctLabels = 10
    /\ ret.exc = "IndexError"

----------------------------------------------------------------------------
(* Claims about the renderers, under SpecRender *)

BySegmentCalled == call.fn = "plot_shap_dependence_plot_by_segment"
WithInteractionCalled == call.fn = "plot_shap_dependence_plot_with_interaction"

\* the render segmented by a column that numeric_cols lists
NumericSegment ==
    /\ BySegmentCalled
    /\ call.segment_col # None
    /\ call.segment_col \in call.params.numeric_cols

\* C4: a continuous segment column is segmented by its quartile bucket only:
\* in a render segmented by a column of numeric_cols the colours and the
\* legend are keyed by the buckets, and so are the grouping keys of the
\* median table.
C4_QuartileBucketsOnly ==
    (NumericSegment /\ "color_dir" \in DOMAIN ret) =>
        /\ ret.color_dir.dtype = "category"
        /\ \A r \in 1..ret.median_shap_df.n :
              DictHas(ret.color_dir,
                      ret.median_shap_df.col[call.segment_col].dtype,
                      ret.median_shap_df.col[call.segment_col].values[r])

\* the layers of the current figure that are median lines
LineLayers == {i \in 1..Len(fig) : fig[i].kind = "line"}

\* C5: with the median line on, a segmented render draws exactly one line
\* per segment label, each in the colour the colouring gave that label (the
\* lookup by label always succeeds); an unsegmented render draws one line.
C5_OneLinePerSegment ==
    /\ (BySegmentCalled /\ call.plot_median_line /\ "color_dir" \in DOMAIN ret
          /\ call.segment_col # None) =>
          /\ ret.exc = None
          /\ Cardinality(LineLayers) = Len(ret.color_dir.keys)
          /\ \A k \in 1..Len(ret.color_dir.keys) :
                \E i \in LineLayers :
                   /\ fig[i].label = <<call.segment_col, ToString(ret.color_dir.keys[k])>>
                   /\ fig[i].color = ret.color_dir.colors[k]
    /\ (BySegmentCalled /\ call.plot_median_line /\ "color_dir" \in DOMAIN ret
          /\ call.segment_col = None) =>
          (ret.exc = None /\ Cardinality(LineLayers) = 1)
    /\ (WithInteractionCalled /\ call.plot_median_line /\ ret.exc = None) =>
          Cardinality(LineLayers) = 1

\* the render asked for a feature column the attribution matrix lacks
FeatureNotAttributed ==
    /\ BySegmentCalled \/ WithInteractionCalled
    /\ ~HasCol(shap_value_df, call.feature_col)

\* C10 as stated: such a render fails with a RenderError naming the column,
\* before any layer is drawn.
C10_RenderErrorNamesColumn ==
    FeatureNotAttributed =>
        /\ ret.exc = "RenderError"
        /\ ret.arg = call.feature_col
        /\ fig = <<>>

\* the column a failed lookup names: the segment column when the data has
\* the feature column but not the segment column, the feature column otherwise
MissingColumn ==
    IF /\ BySegmentCalled
       /\ call.segment_col # None
       /\ HasCol(data_df, call.feature_col)
       /\ ~HasCol(data_df, call.segment_col)
    THEN call.segment_col
    ELSE call.feature_col

\* C10, amended: such a render fails with a KeyError, raised before any layer
\* is drawn on the current figure, in both renderers; the KeyError names the
\* feature column, unless the data has the feature column and lacks the
\* segment column, which it then names.
C10_KeyErrorBeforeDrawing ==
    FeatureNotAttributed =>
        /\ ret.exc = "KeyError"
        /\ ret.arg = MissingColumn
        /\ fig = <<>>

\* a segmented render of the context column y, which has no attributions
C10_Witness ==
    /\ BySegmentCalled
    /\ call.feature_col = "y"
    /\ call.segment_col = "z"
    /\ ret.exc = "KeyError"
    /\ ret.arg = "y"
    /\ fig = <<>>

\* C13 is about the binning alone and is checked under SpecBin.
\* C13: the quartile binning of a column gives at most 4 distinct bucket
\* labels; for a column of at least 4 rows whose values are not all the same
\* it succeeds and each of the 4 buckets holds a row.
C13_FourNonEmptyBuckets ==
    call.fn = "pd.qcut" =>
        /\ ret.exc = None => Cardinality(Range(ret.series.values)) <= 4
        /\ (Len(call.segment.values) >= 4 /\ Cardinality(Range(call.segment.values)) > 1) =>
              /\ ret.exc = None
              /\ Cardinality(Range(ret.series.values)) = 4

\* the positions of the current figure's layers of the given kinds
LayersAt(kinds) == {i \in 1..Len(fig) : fig[i].kind \in kinds}

\* a render returned
Rendered == call.fn \in RenderFns /\ ret.exc = None

\* C12: in every render the steps that set xlim and ylim come after the
\* scatter, the median lines and the histogram, and act on the axes that
\* carry the scatter (no twin axis has become current before them); a limit
\* that is given is set, a limit that is omitted is not.
C12_LimitsAfterAllLayers ==
    Rendered =>
        /\ \A i \in LayersAt({"set_xlim", "set_ylim"}) :
              /\ \A j \in LayersAt({"scatter", "line", "hist"}) : j < i
              /\ \A j \in LayersAt({"twinx"}) : i < j
        /\ Cardinality(LayersAt({"set_xlim"})) = (IF call.lims[1] = NoLim THEN 0 ELSE 1)
        /\ Cardinality(LayersAt({"set_ylim"})) = (IF call.lims[2] = NoLim THEN 0 ELSE 1)
        /\ \A i \in LayersAt({"set_xlim"}) : fig[i].lim = call.lims[1]
        /\ \A i \in LayersAt({"set_ylim"}) : fig[i].lim = call.lims[2]

\* a render with no segment column, no interaction column, no median line
\* and no histogram
PlainScatterCall ==
    /\ call.fn \in RenderFns
    /\ ~call.plot_median_line
    /\ ~call.plot_histogram
    /\ IF BySegmentCalled THEN call.segment_col = None ELSE call.interaction_col = None

\* C16: such a render of an attributed feature returns a plain scatter: one
\* scatter layer with no colouring, and no legend, no colour bar, no median
\* line, no twin axis and no histogram on the figure.
C16_PlainScatter ==
    (PlainScatterCall /\ HasCol(shap_value_df, call.feature_col)) =>
        /\ ret.exc = None
        /\ Cardinality(LayersAt({"scatter"})) = 1
        /\ \A i \in LayersAt({"scatter"}) : fig[i].c = <<>>
        /\ LayersAt({"legend", "legend_handles", "colorbar", "line", "twinx", "hist"}) = {}

\* the plain render of two rows by plot_shap_dependence_plot_by_segment
C16_Witness ==
    /\ BySegmentCalled
    /\ PlainScatterCall
    /\ call.lims = <<NoLim, NoLim>>
    /\ ret.exc = None
    /\ data_df.n = 2
    /\ fig = <<[kind |-> "scatter", x |-> data_df.col["x"].values,
                y |-> <<4, 8>>, c |-> <<>>],
               [kind |-> "title", text |-> <<"x", "target">>],
               [kind |-> "xlabel", text |-> <<"x">>],
               [kind |-> "ylabel", text |-> <<"SHAP value">>],
               [kind |-> "set_size_inches", size |-> <<15, 10>>]>>

----------------------------------------------------------------------------
(* Claims about the front end, under SpecApp *)

\* the two callbacks that produce a dependence plot
PlotTabs == {2, 3}

\* C6: on a control change with a feature selected, each dependence-plot tab
\* invokes the renderer with the control values, the invocation completes,
\* and the image it produced is published to the tab's output slot.
C6_RenderPublished ==
    \A t \in PlotTabs :
        (last[t].served /\ Truthy(last[t].args.feature_name)) =>
            /\ last[t].outcome = "image"
            /\ slots[t] = last[t].value

\* C7: a dependence-plot callback fired with no feature selected invokes no
\* render and leaves its output slot with the value it had before.
C7_EmptySelectionKeepsSlot ==
    [][\A t \in PlotTabs :
          (pc[t] = "called" /\ ~Truthy(req[t].feature_name) /\ pc'[t] = "idle")
              => (slots'[t] = slots[t] /\ fig' = fig)]_vars

\* what a callback's render draws for its arguments on a clean figure
CleanFigure(t, a) ==
    IF t = 1 THEN shap_summary_plot(a.plot_type, <<>>)
    ELSE IF t = 2
    THEN plot_shap_dependence_plot_with_interaction(
             a.feature_name, shap_value_df, data_df, a.interaction_name,
             a.median_line = "yes", NoLim, NoLim, TRUE, nbins, <<>>).fig
    ELSE CallBySegment([feature_col      |-> a.feature_name,
                        shap_value_df    |-> shap_value_df,
                        data_df          |-> data_df,
                        segment_col      |-> a.segment_name,
                        plot_median_line |-> a.median_line = "yes"], <<>>).fig

\* C8: after any sequence of control changes the image published for a
\* render holds the layers of that render only, none left on the current
\* figure by another render.
C8_ImageOfOneRender ==
    \A t \in Tabs :
        (last[t].served /\ last[t].outcome = "image") =>
            last[t].value.png = CleanFigure(t, last[t].args)

\* C9: no two callbacks are at once between their drawing and the
\* extraction of their image from the current figure.
C9_OneRenderInFlight ==
    Cardinality({t \in Tabs : pc[t] = "drawn"}) <= 1

----------------------------------------------------------------------------
(* Claims about a process that calls the library repeatedly, under SpecSession *)

\* C11: a render that fails leaves no state behind: it leaves the current
\* figure as it found it, and a render that returns, whatever failed before
\* it, draws the image it draws on a clean figure.
C11_FailedRenderLeavesNoState ==
    [][call'.fn \in RenderFns =>
          /\ ret'.exc # None => fig' = fig
          /\ ret'.exc = None => fig' = RenderOf(call', <<>>).fig]_vars

\* C15: of two direct calls of assign_colors, whatever was called between
\* them: inputs with the same ordered sequence of distinct labels get the
\* same label-to-color map, and equal inputs get the same per-row colors.
C15_SameLabelsSameColors ==
    (colored.latest.made /\ colored.previous.made) =>
        LET a == colored.previous
            b == colored.latest
        IN  /\ unique(a.input) = unique(b.input) =>
                  /\ a.ret.exc = None
                  /\ b.ret.exc = None
                  /\ a.ret.color_dir = b.ret.color_dir
            /\ a.input = b.input => a.ret.color_col = b.ret.color_col

\* two colourings of inputs that differ and share their distinct labels, the
\* second made while the layers of a failed render are on the current figure
C15_Witness ==
    /\ colored.previous.made
    /\ colored.previous.input = <<"B">>
    /\ colored.latest.input = <<"B", "B">>
    /\ colored.latest.ret.color_dir.colors = <<"red">>
    /\ call.fn = "_color_by_segment_col"
    /\ fig # <<>>

----------------------------------------------------------------------------
(* Claims about the pipeline nodes, under SpecPipeline *)

\* the columns of the dataset that are no context columns, as a set
NonContextCols == Range(data_df.columns) \ call.parameters.context_cols

\* cols lists each of its columns once and in the order of the dataset
InDatasetOrder(cols) ==
    \A i, j \in 1..Len(cols) :
        i < j => IndexOf(data_df.columns, cols[i]) < IndexOf(data_df.columns, cols[j])

\* C17: the attribution matrix calculate_shap returns has as many rows as
\* the dataset, and its columns are the dataset's columns without the context
\* columns, in dataset order: the list train_model fitted on, and the list
\* predict predicts on.
C17_ShapAlignedWithFeatures ==
    /\ (call.fn = "calculate_shap" /\ ret.exc = None) =>
          /\ ret.shap_values.n = data_df.n
          /\ \A c \in Range(ret.shap_values.columns) :
                Len(ret.shap_values.col[c].values) = data_df.n
          /\ Range(ret.shap_values.columns) = NonContextCols
          /\ InDatasetOrder(ret.shap_values.columns)
          /\ ret.shap_values.columns = call.model.fitted_on
          /\ shap_value_df = ret.shap_values
    /\ (call.fn = "predict" /\ ret.exc = None) =>
          /\ ret.predicted_on = call.model.fitted_on
          /\ Range(ret.predicted_on) = NonContextCols
          /\ InDatasetOrder(ret.predicted_on)
          /\ Len(ret.pred_y) = data_df.n
    /\ (call.fn \in {"calculate_shap", "predict"}) => ret.exc = None

\* the attributions of a table whose context column stands between two features
C17_Witness ==
    /\ call.fn = "calculate_shap"
    /\ ret.exc = None
    /\ data_df.columns = <<"z", "y", "x">>
    /\ data_df.n = 2
    /\ call.parameters.context_cols = {"y"}
    /\ shap_value_df.columns = <<"z", "x">>
    /\ shap_value_df.n = 2

----------------------------------------------------------------------------
(* Claims about the segment selector of tab 3, under SpecSelector *)

\* the segment column of the request tab 3 is about to serve
RequestedSegment == req[3].segment_name

\* C19: palette exhaustion cannot be reached from the front end: every column
\* the segment dropdown offers has at most 5 distinct values, and when the
\* callback of tab 3 is fired with a segment column, the column is one the
\* dropdown offers and the colouring step of the renderer gives it, as raw
\* labels or as quartile buckets, fewer labels than the palette has entries
\* and never indexes the palette out of range; no callback ends in an
\* IndexError.
C19_ExhaustionUnreachable ==
    /\ \A c \in SegmentOptions \ {None} :
          Cardinality(Range(data_df.col[c].values)) <= 5
    /\ (pc[3] = "called" /\ RequestedSegment # None) =>
          /\ RequestedSegment \in SegmentOptions
          /\ \A params \in ParamArgs :
                LET colors == ColorStep(params, data_df, RequestedSegment)
                IN  /\ colors.exc # "IndexError"
                    /\ colors.exc = None => Len(colors.color_dir.keys) < Len(Set1)
    /\ \A t \in Tabs : last[t].outcome # "IndexError"

\* the user selected the label column of 5 categories as segment column and
\* tab 3 served the request, while the table holds a numeric column too
C19_Witness ==
    /\ Cardinality(Range(data_df.col["y"].values)) = 5
    /\ controls.segment_name = "y"
    /\ controls.feature_name_tab3 = "x"
    /\ last[3].served
    /\ last[3].args.segment_name = "y"
    /\ last[3].args.feature_name = "x"
    /\ pc[3] = "idle"
    /\ Len(ColorStep([numeric_cols |-> {}, target_var |-> "target"],
                     data_df, "y").color_dir.keys) = 5

====
